---- MODULE Spec2Model ----
(***************************************************************************)
(* A state-machine model of a_star (src/ASTAR.py): the priority queue of   *)
(* (f_score, node) tuples, the came_from / g_score dictionaries, the       *)
(* closed set, the relaxation loop over a node's outgoing edges and the    *)
(* path reconstruction loop.  Costs are integers (the float sums of the    *)
(* source are exact on them).                                              *)
(***************************************************************************)
EXTENDS Integers, Sequences, FiniteSets, Bags

VARIABLES graph, h, start, goal, open_set, came_from, g_score, closed,
          current, f_current, neighbors, path, node, result, pc

vars == <<graph, h, start, goal, open_set, came_from, g_score, closed,
          current, f_current, neighbors, path, node, result, pc>>

(* ---------------------------------------------------------------- bounds *)
\* largest edge weight of the enumerated graphs
MaxW == 1
\* largest heuristic value of the enumerated heuristic tables
MaxH == 1

(* ------------------------------------------------------ Python's values *)
None == "None"
Inf == "inf"
EmptyDict == [x \in {} |-> 0]

\* Python compares node identifiers (str) lexicographically.
NodeRank ==
  [n \in {"A", "B", "C", "D", "E", "F", "G1", "G2", "G3", "S"} |->
     CASE n = "A" -> 1 [] n = "B" -> 2 [] n = "C" -> 3 [] n = "D" -> 4
       [] n = "E" -> 5 [] n = "F" -> 6 [] n = "G1" -> 7 [] n = "G2" -> 8
       [] n = "G3" -> 9 [] n = "S" -> 10]

\* d.get(k, default)
DictGet(d, k, default) == IF k \in DOMAIN d THEN d[k] ELSE default

\* d[k] = v
DictSet(d, k, v) == [x \in (DOMAIN d) \cup {k} |-> IF x = k THEN v ELSE d[x]]

\* tuple comparison (f_score, node) < (f_score, node)
TupleLess(a, b) == a[1] < b[1] \/ (a[1] = b[1] /\ NodeRank[a[2]] < NodeRank[b[2]])

\* heappush(open_set, item)
HeapPush(heap, item) == heap (+) SetToBag({item})

\* a max-heap instead of a min-heap: the greatest tuple
HeapTopMax(heap) ==
  CHOOSE e \in BagToSet(heap) : \A o \in BagToSet(heap) : ~TupleLess(e, o)

\* the item heappop returns: the least tuple of the heap
HeapTop(heap) ==
  CHOOSE e \in BagToSet(heap) : \A o \in BagToSet(heap) : ~TupleLess(o, e)

\* the top is read but not removed
HeapRestPeek(heap) == heap

\* the heap heappop leaves behind
HeapRest(heap) == heap (-) SetToBag({HeapTop(heap)})

\* the reversal is forgotten
ReverseNone(s) == s

\* path.reverse()
Reverse(s) == [i \in 1..Len(s) |-> s[Len(s) + 1 - i]]

(* ------------------------------------------------------------- inputs *)
\* main(): the graph of the diagram, each dict in its insertion order
MainGraph ==
  [n \in {"S", "A", "B", "C", "D", "E", "F", "G1", "G2", "G3"} |->
     CASE n = "S" -> << <<"A", 3>>, <<"B", 1>>, <<"C", 5>> >>
       [] n = "A" -> << <<"E", 7>>, <<"G1", 10>> >>
       [] n = "B" -> << <<"C", 2>>, <<"F", 2>> >>
       [] n = "C" -> << <<"G3", 11>> >>
       [] n = "D" -> << <<"B", 4>>, <<"S", 6>>, <<"G2", 5>> >>
       [] n = "E" -> << <<"G1", 2>> >>
       [] n = "F" -> << <<"D", 1>> >>
       [] n = "G1" -> << >>
       [] n = "G2" -> << >>
       [] n = "G3" -> << <<"F", 0>> >>]

\* main(): the heuristic table
MainHeuristic ==
  [n \in {"S", "A", "B", "C", "D", "E", "F", "G1", "G2", "G3"} |->
     CASE n = "S" -> 8 [] n = "A" -> 9 [] n = "B" -> 1 [] n = "C" -> 3
       [] n = "D" -> 4 [] n = "E" -> 1 [] n = "F" -> 5 [] n = "G1" -> 0
       [] n = "G2" -> 0 [] n = "G3" -> 3]

\* the nodes and the candidate edges of the enumerated graphs
SmallNodes == {"S", "A", "B", "C"}
CandidateEdges ==
  { <<"S", "A">>, <<"S", "B">>, <<"A", "B">>, <<"B", "A">>,
    <<"A", "C">>, <<"B", "C">> }

RECURSIVE SortByRank(_)
SortByRank(S) ==
  IF S = {} THEN << >>
  ELSE LET m == CHOOSE x \in S : \A y \in S : NodeRank[x[1]] <= NodeRank[y[1]]
       IN  <<m>> \o SortByRank(S \ {m})

\* the adjacency dict of the edge set E with weights w
GraphOf(E, w) ==
  [n \in {e[1] : e \in E} |->
     SortByRank({ <<e[2], w[e]>> : e \in {x \in E : x[1] = n} })]

(* ------------------------------------------------------------- a_star *)
\* lines 37-43
Setup ==
  /\ open_set = HeapPush(EmptyBag, <<DictGet(h, start, 0), start>>)
  /\ came_from = DictSet(EmptyDict, start, None)
  /\ g_score = DictSet(EmptyDict, start, 0)
  /\ closed = {}
  /\ current = None
  /\ f_current = 0
  /\ neighbors = << >>
  /\ path = << >>
  /\ node = None
  /\ result = << >>
  /\ pc = "pop"

InitMain ==
  /\ graph = MainGraph
  /\ h = MainHeuristic
  /\ start \in DOMAIN MainGraph
  /\ goal \in DOMAIN MainGraph
  /\ Setup

\* a call on an enumerated graph with a heuristic table whose keys are in HKeys
InitSmallOn(HKeys) ==
  /\ \E E \in SUBSET CandidateEdges : \E w \in [E -> 0..MaxW] : graph = GraphOf(E, w)
  /\ \E K \in SUBSET HKeys : h \in [K -> 1..MaxH]
  /\ start = "S"
  /\ goal \in SmallNodes
  /\ Setup

InitSmall == InitSmallOn(SmallNodes \ {"S"})

Init == InitMain \/ InitSmall

\* the calls whose termination is checked: the table has entries for A, B only
FairInit == InitMain \/ InitSmallOn({"A", "B"})

\* an equal cost counts as an improvement
SkipRelaxStrict(neigh, tentative_g) ==
  neigh \in DOMAIN g_score /\ tentative_g > g_score[neigh]

\* line 65: the relaxation is skipped
SkipRelax(neigh, tentative_g) ==
  neigh \in DOMAIN g_score /\ tentative_g >= g_score[neigh]

\* membership is tested on the wrong collection
IsClosedSeen(n) == n \in DOMAIN g_score

\* line 58
IsClosed(n) == n \in closed

\* the priority f is returned instead of g
ReturnCostF == f_current

\* line 56: the cost returned with the path
ReturnCost == g_score[current]

\* the priority f of the expanded node is extended instead of its g
TentativeF(cost) == f_current + cost

\* line 64
Tentative(cost) == g_score[current] + cost

\* lines 45-48: the popped node is the goal
PopGoal ==
  /\ pc = "pop"
  /\ open_set # EmptyBag
  /\ HeapTop(open_set)[2] = goal
  /\ f_current' = HeapTop(open_set)[1]
  /\ current' = HeapTop(open_set)[2]
  /\ open_set' = HeapRest(open_set)
  /\ path' = << >>
  /\ node' = HeapTop(open_set)[2]
  /\ pc' = "rebuild"
  /\ UNCHANGED <<graph, h, start, goal, came_from, g_score, closed, neighbors, result>>

\* lines 45-48, 58-59: a stale duplicate is dropped
PopStale ==
  /\ pc = "pop"
  /\ open_set # EmptyBag
  /\ HeapTop(open_set)[2] # goal
  /\ IsClosed(HeapTop(open_set)[2])
  /\ f_current' = HeapTop(open_set)[1]
  /\ current' = HeapTop(open_set)[2]
  /\ open_set' = HeapRest(open_set)
  /\ UNCHANGED <<graph, h, start, goal, came_from, g_score, closed, neighbors,
                 path, node, result, pc>>

\* lines 45-48, 58-63: the popped node is closed and its edges are fetched
PopExpand ==
  /\ pc = "pop"
  /\ open_set # EmptyBag
  /\ HeapTop(open_set)[2] # goal
  /\ ~IsClosed(HeapTop(open_set)[2])
  /\ f_current' = HeapTop(open_set)[1]
  /\ current' = HeapTop(open_set)[2]
  /\ open_set' = HeapRest(open_set)
  /\ closed' = closed \cup {HeapTop(open_set)[2]}
  /\ neighbors' = DictGet(graph, HeapTop(open_set)[2], << >>)
  /\ pc' = IF DictGet(graph, HeapTop(open_set)[2], << >>) = << >> THEN "pop" ELSE "relax"
  /\ UNCHANGED <<graph, h, start, goal, came_from, g_score, path, node, result>>

\* lines 63-66: one iteration of the for loop, the edge is not an improvement
RelaxSkip ==
  /\ pc = "relax"
  /\ LET neigh == Head(neighbors)[1]
         cost == Head(neighbors)[2]
         tentative_g == Tentative(cost)
     IN  /\ SkipRelax(neigh, tentative_g)
         /\ UNCHANGED <<came_from, g_score, open_set>>
  /\ neighbors' = Tail(neighbors)
  /\ pc' = IF Tail(neighbors) = << >> THEN "pop" ELSE "relax"
  /\ UNCHANGED <<graph, h, start, goal, closed, current, f_current, path, node, result>>

\* lines 63-72: one iteration of the for loop, the edge improves the neighbor
RelaxUpdate ==
  /\ pc = "relax"
  /\ LET neigh == Head(neighbors)[1]
         cost == Head(neighbors)[2]
         tentative_g == Tentative(cost)
         f_score == tentative_g + DictGet(h, neigh, 0)
     IN  /\ ~SkipRelax(neigh, tentative_g)
         /\ came_from' = DictSet(came_from, neigh, current)
         /\ g_score' = DictSet(g_score, neigh, tentative_g)
         /\ open_set' = HeapPush(open_set, <<f_score, neigh>>)
  /\ neighbors' = Tail(neighbors)
  /\ pc' = IF Tail(neighbors) = << >> THEN "pop" ELSE "relax"
  /\ UNCHANGED <<graph, h, start, goal, closed, current, f_current, path, node, result>>

\* lines 52-54: one iteration of the reconstruction loop
Rebuild ==
  /\ pc = "rebuild"
  /\ node # None
  /\ path' = Append(path, node)
  /\ node' = DictGet(came_from, node, None)
  /\ UNCHANGED <<graph, h, start, goal, open_set, came_from, g_score, closed,
                 current, f_current, neighbors, result, pc>>

\* lines 55-56
ReturnPath ==
  /\ pc = "rebuild"
  /\ node = None
  /\ path' = Reverse(path)
  /\ result' = <<Reverse(path), ReturnCost>>
  /\ pc' = "found"
  /\ UNCHANGED <<graph, h, start, goal, open_set, came_from, g_score, closed,
                 current, f_current, neighbors, node>>

\* lines 45, 75
ReturnNone ==
  /\ pc = "pop"
  /\ open_set = EmptyBag
  /\ result' = <<None, Inf>>
  /\ pc' = "notfound"
  /\ UNCHANGED <<graph, h, start, goal, open_set, came_from, g_score, closed,
                 current, f_current, neighbors, path, node>>

Next ==
  \/ PopGoal
  \/ PopStale
  \/ PopExpand
  \/ RelaxSkip
  \/ RelaxUpdate
  \/ Rebuild
  \/ ReturnPath
  \/ ReturnNone

Spec == Init /\ [][Next]_vars

\* a_star is a sequential function: a step that can be taken is taken
FairSpec == FairInit /\ [][Next]_vars /\ WF_vars(Next)

(* ------------------------------------------------ graph-theoretic terms *)
\* the outgoing edges of n, as (neighbor, cost) pairs
Items(n) == DictGet(graph, n, << >>)

\* the edges of graph as (from, to, cost) triples
EdgeSet ==
  UNION { { <<u, Items(u)[i][1], Items(u)[i][2]>> : i \in 1..Len(Items(u)) } :
          u \in DOMAIN graph }

AllNodes == {start, goal} \cup {e[1] : e \in EdgeSet} \cup {e[2] : e \in EdgeSet}

SetMin(S) == CHOOSE x \in S : \A y \in S : x <= y

\* one round of Bellman-Ford on the table d of least costs found so far
BFRound(d) ==
  LET from == {e \in EdgeSet : e[1] \in DOMAIN d}
  IN  [n \in (DOMAIN d) \cup {e[2] : e \in from} |->
         SetMin((IF n \in DOMAIN d THEN {d[n]} ELSE {})
                \cup {d[e[1]] + e[3] : e \in {x \in from : x[2] = n}})]

RECURSIVE BFIter(_, _)
BFIter(d, k) == IF k = 0 THEN d ELSE BFIter(BFRound(d), k - 1)

\* the true least cost from s to every node reachable from s
DistFrom(s) == BFIter(DictSet(EmptyDict, s, 0), Cardinality(AllNodes))

Reachable(s, t) == t \in DOMAIN DistFrom(s)

\* h never exceeds the true least cost to goal
Admissible ==
  \A n \in AllNodes : Reachable(n, goal) => DictGet(h, n, 0) <= DistFrom(n)[goal]

IsEdge(u, v) == \E e \in EdgeSet : e[1] = u /\ e[2] = v

EdgeCost(u, v) == (CHOOSE e \in EdgeSet : e[1] = u /\ e[2] = v)[3]

\* consecutive elements of p are edges of graph
IsWalk(p) == \A i \in 1..(Len(p) - 1) : IsEdge(p[i], p[i + 1])

RECURSIVE WalkCost(_)
WalkCost(p) ==
  IF Len(p) <= 1 THEN 0
  ELSE (IF IsEdge(p[1], p[2]) THEN EdgeCost(p[1], p[2]) ELSE 0) + WalkCost(Tail(p))

Returned == pc \in {"found", "notfound"}

(* --------------------------------------------------------------- claims *)
\* C1: with an admissible heuristic (consistency not required), whenever a
\* path is returned the returned cost is the true shortest-path cost from
\* start to goal.
C1_AdmissibleOptimal ==
  (pc = "found" /\ Admissible) => result[2] = DistFrom(start)[goal]

\* C2: with the empty heuristic table (h is zero everywhere) the returned
\* cost is the shortest-path distance from start to goal and the returned
\* path is a shortest path, as Dijkstra's algorithm returns.
C2_ZeroHeuristicIsDijkstra ==
  (pc = "found" /\ h = EmptyDict) =>
     /\ result[2] = DistFrom(start)[goal]
     /\ result[1][1] = start
     /\ result[1][Len(result[1])] = goal
     /\ IsWalk(result[1])
     /\ WalkCost(result[1]) = DistFrom(start)[goal]

C2_Witness ==
  /\ pc = "found"
  /\ h = EmptyDict
  /\ Len(result[1]) >= 3
  /\ \E n \in closed : n # start /\ ~IsEdge(n, goal) /\ Reachable(n, goal)

\* C3: the NotFound outcome (None, inf) is returned exactly when goal is not
\* reachable from start; when goal is reachable a path with a finite cost is
\* returned, whatever the heuristic; a start that is no key of graph gives
\* NotFound unless start = goal.
C3_NotFoundIffUnreachable ==
  /\ pc = "notfound" => (result = <<None, Inf>> /\ ~Reachable(start, goal))
  /\ pc = "found" =>
       (Reachable(start, goal) /\ result[1] # << >> /\ result[2] \in Nat)
  /\ (Returned /\ start \notin DOMAIN graph /\ start # goal) => pc = "notfound"

C3_Witness ==
  /\ pc = "notfound"
  /\ closed # {start}
  /\ \E n \in closed : \E m \in closed : n # m /\ Reachable(n, m) /\ Reachable(m, n)

\* C4: every call terminates (a result is eventually returned), cycles and
\* zero-weight edges included; closed only grows and a node whose edges are
\* relaxed was not closed before, so each node is expanded at most once; the
\* reconstruction loop never meets a node twice.
C4_Terminates ==
  /\ <>Returned
  /\ [][ /\ closed \subseteq closed'
         /\ (pc = "pop" /\ pc' = "relax") =>
               (current' \notin closed /\ closed' = closed \cup {current'})
         /\ (pc = "rebuild" /\ node # None) =>
               (node \notin {path[i] : i \in 1..Len(path)})
       ]_vars

C4_Witness ==
  /\ pc = "notfound"
  /\ \E e \in EdgeSet :
        /\ e[3] = 0
        /\ e[1] \in closed
        /\ e[1] # e[2]
        /\ Reachable(e[2], e[1])

\* C5: a returned path starts at start, ends at goal, steps along edges of
\* graph only and visits no node twice.
C5_PathWellFormed ==
  pc = "found" =>
     /\ Len(result[1]) >= 1
     /\ result[1][1] = start
     /\ result[1][Len(result[1])] = goal
     /\ IsWalk(result[1])
     /\ \A i \in 1..Len(result[1]) : \A j \in 1..Len(result[1]) :
           result[1][i] = result[1][j] => i = j

C5_Witness ==
  /\ pc = "found"
  /\ Len(result[1]) = 4
  /\ ~Admissible

\* C6: with start = goal the result is the one-node path and cost 0, found on
\* the first pop, with no node expanded.
C6_TrivialPath ==
  start = goal =>
     /\ pc \in {"pop", "rebuild", "found"}
     /\ closed = {}
     /\ DOMAIN g_score = {start}
     /\ pc = "found" => (result = << <<start>>, 0 >> /\ open_set = EmptyBag)

C6_Witness ==
  /\ pc = "found"
  /\ start = goal
  /\ start \notin DOMAIN graph

\* C7: on the graph and heuristic table of main(), from S to G2, the result
\* is the path S, B, F, D, G2 with cost 9, not NotFound.
C7_ReferenceRun ==
  (graph = MainGraph /\ h = MainHeuristic /\ start = "S" /\ goal = "G2") =>
     /\ pc # "notfound"
     /\ pc = "found" => result = << <<"S", "B", "F", "D", "G2">>, 9 >>

C7_Witness ==
  /\ graph = MainGraph /\ h = MainHeuristic /\ start = "S" /\ goal = "G2"
  /\ pc = "found"

\* C8: once a node is in closed, its g_score and came_from never change.
C8_ClosedIsFinal ==
  [][\A n \in closed : g_score'[n] = g_score[n] /\ came_from'[n] = came_from[n]]_vars

\* C9: an edge whose tentative cost is equal to or greater than the
\* neighbor's recorded g_score leaves g_score, came_from and open untouched;
\* g_score and came_from change, and a push happens, only for a neighbor
\* with no g_score or a strictly smaller tentative cost.
C9_TieKeepsFirst ==
  [][ LET neigh == Head(neighbors)[1]
          tentative_g == g_score[current] + Head(neighbors)[2]
          pushed == \E e \in BagToSet(open_set') :
                       CopiesIn(e, open_set') > CopiesIn(e, open_set)
      IN  /\ (pc = "relax" /\ neigh \in DOMAIN g_score
                           /\ tentative_g >= g_score[neigh])
                => UNCHANGED <<g_score, came_from, open_set>>
          /\ (g_score' # g_score \/ came_from' # came_from \/ pushed)
                => /\ pc = "relax"
                   /\ (neigh \notin DOMAIN g_score \/ tentative_g < g_score[neigh])
                   /\ g_score' = DictSet(g_score, neigh, tentative_g)
                   /\ came_from' = DictSet(came_from, neigh, current)
                   /\ open_set' = HeapPush(open_set,
                                     <<tentative_g + DictGet(h, neigh, 0), neigh>>)
    ]_vars

\* an expanded node u has an edge to v of exactly the cost difference, yet
\* v's predecessor is another node: the tie was skipped
C9_Witness ==
  /\ pc = "found"
  /\ \E e \in EdgeSet :
        /\ e[1] \in closed
        /\ e[1] # e[2]
        /\ e[2] # start
        /\ g_score[e[1]] + e[3] = g_score[e[2]]
        /\ came_from[e[2]] # e[1]
        /\ WalkCost(result[1]) = result[2]

\* C10: the returned cost is the sum of the edge weights along the returned
\* path, for every heuristic.
C10_CostIsPathSum ==
  pc = "found" => (IsWalk(result[1]) /\ result[2] = WalkCost(result[1]))

====
